---- MODULE Spec2Model ----
(***************************************************************************)
(* Model of the recommendation engine of "pages/Model Training.py":        *)
(* the catalog `data`, the fitted `scaler`, get_song_data (catalog lookup  *)
(* with the Spotify fallback), get_mean_vector, recommend_songs and the    *)
(* form's submit handler.                                                  *)
(*                                                                         *)
(* Numbers.  Feature values are integers.  Means, standard deviations and  *)
(* cosine distances are rationals or square roots of rationals; they are   *)
(* kept exact as integer numerators over a stated denominator, and two     *)
(* cosine distances are compared by cross-multiplying signed squares.      *)
(* Two of the fifteen columns of number_cols are modelled: "valence" and   *)
(* "year" (the column that is both metadata and feature).                  *)
(***************************************************************************)
EXTENDS Integers, Sequences, FiniteSets, TLC

\* ---------------------------------------------------------------- bounds
MaxSeeds == 2      \* text inputs of the form (the page has song1..song3)
MaxN     == 2      \* largest n_songs of a call (the page passes the default)
CatLen   == 3      \* rows of the catalog

\* ------------------------------------------------------ values of the model
ExtYears   == {2}                  \* release year of a track sp.search returns
ExtVals    == {2}                  \* "valence" returned by audio_features

\* the rows a catalog is made of: two titles, one of them with two years; a
\* catalog may hold a row more than once
Rows ==
  { [name |-> "a", year |-> 1, valence |-> 0],
    [name |-> "b", year |-> 1, valence |-> 1],
    [name |-> "b", year |-> 2, valence |-> 1] }

Catalogs == [1..CatLen -> Rows]

\* the seeds a form can hold: each is a row of some catalogs and of none of
\* the others; the second has a title of the catalog with another year
Seeds ==
  { [name |-> "a", year |-> 1],
    [name |-> "a", year |-> 2],
    [name |-> "b", year |-> 2] }

None == [kind |-> "None"]          \* Python's None

number_cols == <<"valence", "year">>

NumCols == 1..Len(number_cols)

\* ------------------------------------------------------------ arithmetic
RECURSIVE SumTo(_, _)
SumTo(s, n) == IF n = 0 THEN 0 ELSE s[n] + SumTo(s, n - 1)

SumSeq(s) == SumTo(s, Len(s))

RECURSIVE ProdTo(_, _)
ProdTo(s, n) == IF n = 0 THEN 1 ELSE s[n] * ProdTo(s, n - 1)

ProdSeq(s) == ProdTo(s, Len(s))

SgnSq(a) == IF a < 0 THEN 0 - a * a ELSE a * a

\* song_data[number_cols].values : the feature vector of a record
FeatureVector(rec) == [j \in NumCols |-> rec[number_cols[j]]]

\* ---------------------------------------------------------- StandardScaler
\* fit: mean_[j] = mean_num[j] / n_samples, var_[j] = var_num[j] / n_samples^2,
\* scale_[j]^2 = scale_sq_num[j] / n_samples^2, where a zero variance gives
\* scale_[j] = 1 (sklearn's handling of zeros in scale).
fit(d) ==
  LET N    == Len(d)
      S(j) == SumSeq([k \in 1..N |-> d[k][number_cols[j]]])
      Q(j) == SumSeq([k \in 1..N |-> d[k][number_cols[j]] * d[k][number_cols[j]]])
      V(j) == N * Q(j) - S(j) * S(j)
  IN  [n_samples    |-> N,
       mean_num     |-> [j \in NumCols |-> S(j)],
       var_num      |-> [j \in NumCols |-> V(j)],
       scale_sq_num |-> [j \in NumCols |-> IF V(j) = 0 THEN N * N ELSE V(j)]]

\* transform of the vector x / m:  z[j] = c[j] / (m * sqrt(scale_sq_num[j]))
transform(sc, x, m) ==
  [c |-> [j \in NumCols |-> sc.n_samples * x[j] - m * sc.mean_num[j]],
   m |-> m]

\* dot(zu, zv) * (u.m * v.m * product of scale_sq_num): an integer
WDot(sc, u, v) ==
  SumSeq([j \in NumCols |->
            u.c[j] * v.c[j] *
            ProdSeq([k \in NumCols |-> IF k = j THEN 1 ELSE sc.scale_sq_num[k]])])

\* ------------------------------------------------------------- cdist cosine
\* scaled_data = scaler.transform(data[number_cols]), row k
ScaledRow(sc, d, k) == transform(sc, FeatureVector(d[k]), 1)

\* The cosine of the standardized profile p and the standardized row r is
\* dot / sqrt(pp * rr), and the distance is 1 - cosine; the entry keeps the
\* three integers the distance is made of.
CosineDistance(sc, p, r) ==
  [dot |-> WDot(sc, p, r), rr |-> WDot(sc, r, r), pp |-> WDot(sc, p, p)]

\* distances = cdist(scaled_song_center, scaled_data, 'cosine')
cdist(sc, p, d) ==
  [k \in 1..Len(d) |-> LET r == ScaledRow(sc, d, k) IN CosineDistance(sc, p, r)]

\* a zero standardized vector gives 0/0: the distance is NaN
IsNaN(x) == x.pp = 0 \/ x.rr = 0

\* x < y for two distances to the same profile, in the order np.argsort
\* sorts by: ascending, NaN after every number
DistLess(x, y) ==
  /\ ~IsNaN(x)
  /\ IsNaN(y) \/ SgnSq(x.dot) * y.rr > SgnSq(y.dot) * x.rr

DistEqual(x, y) == ~DistLess(x, y) /\ ~DistLess(y, x)

\* the sort as it would be if it were descending
argsort_Descending(dist, tie) ==
  LET N == Len(dist)
      less == [a \in 1..N |-> [b \in 1..N |-> DistLess(dist[a], dist[b])]]
      Before(a, b) ==
        \/ less[b][a]
        \/ /\ ~less[a][b]
           /\ ~less[b][a]
           /\ IF tie = "forward" THEN a < b ELSE a > b
      pos == [a \in 1..N |-> 1 + Cardinality({b \in 1..N : Before(b, a)})]
  IN  [k \in 1..N |-> CHOOSE a \in 1..N : pos[a] = k]

\* np.argsort(distances) with the default kind ("quicksort": introsort, not
\* stable): indices ascending by distance; rows at equal distance come in an
\* order the sort does not promise (tie).
argsort(dist, tie) ==
  LET N == Len(dist)
      less == [a \in 1..N |-> [b \in 1..N |-> DistLess(dist[a], dist[b])]]
      Before(a, b) ==
        \/ less[a][b]
        \/ /\ ~less[a][b]
           /\ ~less[b][a]
           /\ IF tie = "forward" THEN a < b ELSE a > b
      pos == [a \in 1..N |-> 1 + Cardinality({b \in 1..N : Before(b, a)})]
  IN  [k \in 1..N |-> CHOOSE a \in 1..N : pos[a] = k]

\* [:, :n_songs][0] : the first n entries of the sorted indices
TopN(order, n) == SubSeq(order, 1, IF n < Len(order) THEN n ELSE Len(order))

\* the titles as they would be if only the last seed were listed
SeedNames_LastSeed(sl) == {sl[Len(sl)].name}

\* [s['name'] for s in song_list]
SeedNames(sl) == {sl[k].name : k \in 1..Len(sl)}

\* the exclusion as it would be if a seed were matched by title and year
ExcludeSeeds_ByKey(index, d, sl) ==
  LET keep(k) == \A s \in 1..Len(sl) :
                   ~(d[k].name = sl[s].name /\ d[k].year = sl[s].year)
  IN  SelectSeq(index, keep)

\* rec_songs[~rec_songs['name'].isin([s['name'] for s in song_list])]
ExcludeSeeds(index, d, sl) ==
  LET keep(k) == d[k].name \notin SeedNames(sl)
  IN  SelectSeq(index, keep)

\* ---------------------------------------------------------- get_song_data
\* the lookup as it would be if it took the last matching row
CatalogLookup_LastMatch(song, d) ==
  LET hits == {k \in 1..Len(d) : d[k].name = song.name /\ d[k].year = song.year}
  IN  IF hits = {} THEN 0 ELSE CHOOSE k \in hits : \A h \in hits : k >= h

\* data[(name == song.name) & (year == song.year)].iloc[0]: the index of the
\* first matching row, 0 when filtered_data is empty
CatalogLookup(song, d) ==
  LET hits == {k \in 1..Len(d) : d[k].name = song.name /\ d[k].year = song.year}
  IN  IF hits = {} THEN 0 ELSE CHOOSE k \in hits : \A h \in hits : k <= h

\* -------------------------------------------------------- get_mean_vector
\* np.mean(vectors, axis=0) = sum[j] / cnt for every column j
VecSum(vs) == [j \in NumCols |-> SumSeq([k \in 1..Len(vs) |-> vs[k][j]])]

\* the mean as it would be if a vector listed twice were counted once
RECURSIVE Distinct(_)
Distinct(vs) ==
  IF vs = <<>> THEN <<>>
  ELSE LET t == Distinct(Tail(vs))
       IN  IF \E k \in 1..Len(t) : t[k] = Head(vs) THEN t ELSE <<Head(vs)>> \o t

MeanVector_Distinct(vs) ==
  IF vs = <<>> THEN None
  ELSE [kind |-> "array", sum |-> VecSum(Distinct(vs)), cnt |-> Len(Distinct(vs))]

MeanVector(vs) ==
  IF vs = <<>> THEN None
  ELSE [kind |-> "array", sum |-> VecSum(vs), cnt |-> Len(vs)]

\* -------------------------------------------------------- recommend_songs
\* lines 210-212, for a song_center that is not None
CenterDistances(sc, d, center) ==
  LET scaled_song_center == transform(sc, center.sum, center.cnt)
  IN  cdist(sc, scaled_song_center, d)

\* lines 213-215, for the sorted indices order = np.argsort(distances)[0]
RankedIndices(order, d, sl, n) == ExcludeSeeds(TopN(order, n), d, sl)

\* lines 217-221: the 'artists' column of the returned frame, 'Unknown' in
\* every row when the catalog has no such column
ArtistsColumn(index, d) ==
  [r \in 1..Len(index) |->
     IF "artists" \in DOMAIN d[index[r]] THEN d[index[r]].artists
     ELSE "Unknown"]

\* ------------------------------------------------------------------ state
VARIABLES
  data,         \* the catalog DataFrame (load_data), rows in file order
  scaler,       \* the StandardScaler fitted by the last run of the script
  refitted,     \* a run after the first one has fitted a scaler again
  secrets,      \* st.secrets holds SPOTIPY_CLIENT_ID and SPOTIPY_CLIENT_SECRET
  sp,           \* the spotipy client built by the last run of the script
  pc,           \* "idle", "lookup", "search", "features", "rank", "done"
  song_list,    \* the seeds of the request being served
  n_songs,      \* the result count of the request
  i,            \* position of get_mean_vector's loop in song_list
  vectors,      \* get_mean_vector's list of resolved feature vectors
  seed_data,    \* what get_song_data returned for each seed of the loop
  track,        \* the match sp.search returned for seed i
  calls,        \* requests the running get_mean_vector sent to the external
                \* service, each with the reply it got
  song_center,  \* get_mean_vector's return value
  recs,         \* recommend_songs' return value
  outcome       \* what the page shows: "none", "no-input", "no-matches",
                \* "ok", or "error" (an exception left the handler)

vars == <<data, scaler, refitted, secrets, sp, pc, song_list, n_songs, i,
          vectors, seed_data, track, calls, song_center, recs, outcome>>

engine == <<data, scaler, refitted, secrets, sp>>

\* lines 126-132: the client is built from st.secrets, or from the two
\* literals of lines 126-127 when st.secrets has no such key
SpotifyClient(configured) ==
  [kind |-> "Spotify",
   credentials |-> IF configured THEN "st.secrets" ELSE "literal"]

\* lines 114-132, run at the start of every run of the page script: load_data
\* is cached, a StandardScaler is made and fitted, the client is built
ScriptTop(again) ==
  /\ scaler' = fit(data)
  /\ refitted' = again
  /\ sp' = SpotifyClient(secrets)
  /\ UNCHANGED <<data, secrets>>

Init ==
  /\ data \in Catalogs
  /\ scaler = fit(data)
  /\ refitted = FALSE
  /\ secrets \in BOOLEAN
  /\ sp = SpotifyClient(secrets)
  /\ pc = "idle"
  /\ song_list = <<>>
  /\ n_songs = 0
  /\ i = 0
  /\ vectors = <<>>
  /\ seed_data = <<>>
  /\ track = None
  /\ calls = <<>>
  /\ song_center = None
  /\ recs = None
  /\ outcome = "none"

\* lines 246-249: a seed is appended for every text input that is not empty
FormSeeds(form) ==
  LET filled(f) == f.name # ""
  IN  SelectSeq(form, filled)

\* what the text and number inputs can hold when the form is submitted
Forms == [1..MaxSeeds -> Seeds \cup {[name |-> "", year |-> 1]}]

\* the handler as it would be without the test of line 251
Submit_NoEmptyCheck(form) ==
  /\ pc = "idle"
  /\ song_list' = FormSeeds(form)
  /\ i' = 1
  /\ vectors' = <<>>
  /\ seed_data' = <<>>
  /\ track' = None
  /\ calls' = <<>>
  /\ song_center' = None
  /\ recs' = None
  /\ pc' = "lookup"
  /\ outcome' = "none"
  /\ n_songs' = 0
  /\ ScriptTop(TRUE)

\* A run of the page script with submit pressed: the module-level lines
\* 114-132, the handler up to the call of recommend_songs (lines 245-253) and
\* its else branch (lines 319-320).  A run starts from the page as PageLoad
\* leaves it; a run started from a finished one sets the same state.
Submit(form) ==
  /\ pc = "idle"
  /\ song_list' = FormSeeds(form)
  /\ i' = 1
  /\ vectors' = <<>>
  /\ seed_data' = <<>>
  /\ track' = None
  /\ calls' = <<>>
  /\ song_center' = None
  /\ recs' = None
  /\ IF FormSeeds(form) = <<>>
       THEN /\ pc' = "done"
            /\ outcome' = "no-input"
       ELSE /\ pc' = "lookup"
            /\ outcome' = "none"
  /\ n_songs' = 0
  /\ ScriptTop(TRUE)

\* A run of the page script without submit (the page is opened or redrawn):
\* lines 114-132 and the form; nothing of the last request is kept.
PageLoad ==
  /\ pc = "done"
  /\ pc' = "idle"
  /\ ScriptTop(TRUE)
  /\ song_list' = <<>>
  /\ n_songs' = 0
  /\ i' = 0
  /\ vectors' = <<>>
  /\ seed_data' = <<>>
  /\ track' = None
  /\ calls' = <<>>
  /\ song_center' = None
  /\ recs' = None
  /\ outcome' = "none"

\* the reply to the request sent last
Replied(r) == [calls EXCEPT ![Len(calls)].reply = r]

Request(op) == [op |-> op, seed |-> i, reply |-> "pending"]

\* the loop as it would be if a seed that is not found ended it
Returned_StopAtNone(r) ==
  /\ seed_data' = Append(seed_data, r)
  /\ vectors' = IF r.kind = "None" THEN vectors
                ELSE Append(vectors, FeatureVector(r))
  /\ i' = IF r.kind = "None" THEN Len(song_list) + 1 ELSE i + 1
  /\ pc' = "lookup"
  /\ track' = None

\* get_song_data returned r for seed i: lines 186-188
Returned(r) ==
  /\ seed_data' = Append(seed_data, r)
  /\ vectors' = IF r.kind = "None" THEN vectors
                ELSE Append(vectors, FeatureVector(r))
  /\ i' = i + 1
  /\ pc' = "lookup"
  /\ track' = None

\* an exception of the spotipy client: nothing catches it in get_song_data,
\* get_mean_vector, recommend_songs or the handler
Raised ==
  /\ pc' = "done"
  /\ outcome' = "error"
  /\ track' = None
  /\ UNCHANGED <<i, vectors, seed_data, song_center, recs>>

\* get_song_data as it would be if it asked the external service first
Lookup_ExternalFirst ==
  /\ pc = "lookup"
  /\ i <= Len(song_list)
  /\ pc' = "search"
  /\ calls' = Append(calls, Request("search"))
  /\ UNCHANGED <<i, vectors, seed_data, track>>
  /\ UNCHANGED <<engine, song_list, n_songs, song_center, recs, outcome>>

\* get_song_data, lines 148-153: the catalog row, or the search request
Lookup ==
  /\ pc = "lookup"
  /\ i <= Len(song_list)
  /\ LET k == CatalogLookup(song_list[i], data)
     IN  IF k # 0
           THEN /\ Returned([kind |-> "Series", source |-> "catalog", row |-> k,
                             name |-> data[k].name, year |-> data[k].year,
                             valence |-> data[k].valence])
                /\ UNCHANGED calls
           ELSE /\ pc' = "search"
                /\ calls' = Append(calls, Request("search"))
                /\ UNCHANGED <<i, vectors, seed_data, track>>
  /\ UNCHANGED <<engine, song_list, n_songs, song_center, recs, outcome>>

\* the empty answer as it would be handled without the test of line 154:
\* results["tracks"]["items"][0] raises IndexError
SearchNoMatch_Raises ==
  /\ pc = "search"
  /\ calls' = Replied("no-match")
  /\ Raised
  /\ UNCHANGED <<engine, song_list, n_songs>>

\* sp.search(q, limit=1) answers with no item: lines 154-155
SearchNoMatch ==
  /\ pc = "search"
  /\ calls' = Replied("no-match")
  /\ Returned(None)
  /\ UNCHANGED <<engine, song_list, n_songs, song_center, recs, outcome>>

\* sp.search answers with one item; its audio features are requested:
\* lines 157-159
SearchMatch(y) ==
  /\ pc = "search"
  /\ track' = [kind |-> "track", name |-> song_list[i].name, year |-> y]
  /\ calls' = Append(Replied("match"), Request("features"))
  /\ pc' = "features"
  /\ UNCHANGED <<engine, song_list, n_songs, i, vectors, seed_data,
                 song_center, recs, outcome>>

\* sp.search raises (network, authentication, timeout, rate limit, 5xx)
SearchRaises ==
  /\ pc = "search"
  /\ calls' = Replied("raised")
  /\ Raised
  /\ UNCHANGED <<engine, song_list, n_songs>>

\* sp.audio_features(track_id)[0] is None: lines 161-162
FeaturesNone ==
  /\ pc = "features"
  /\ calls' = Replied("none")
  /\ Returned(None)
  /\ UNCHANGED <<engine, song_list, n_songs, song_center, recs, outcome>>

\* the audio features arrive: the Series of lines 164-173
FeaturesFound(v) ==
  /\ pc = "features"
  /\ Returned([kind |-> "Series", source |-> "external", row |-> 0,
               name |-> track.name, year |-> track.year, valence |-> v])
  /\ calls' = Replied("features")
  /\ UNCHANGED <<engine, song_list, n_songs, song_center, recs, outcome>>

\* sp.audio_features raises
FeaturesRaises ==
  /\ pc = "features"
  /\ calls' = Replied("raised")
  /\ Raised
  /\ UNCHANGED <<engine, song_list, n_songs>>

\* the return as it would be without the test of line 189: a profile of
\* zeros for an empty list of vectors
GetMeanVectorReturns_NoEmptyTest ==
  /\ pc = "lookup"
  /\ i > Len(song_list)
  /\ song_center' = IF vectors = <<>>
                      THEN [kind |-> "array", sum |-> [j \in NumCols |-> 0],
                            cnt |-> 1]
                      ELSE MeanVector(vectors)
  /\ pc' = "rank"
  /\ i' = 0
  /\ vectors' = <<>>
  /\ seed_data' = <<>>
  /\ calls' = <<>>
  /\ UNCHANGED <<engine, song_list, n_songs, track, recs, outcome>>

\* the loop of get_mean_vector is over and the function returns: lines
\* 189-191 and the assignment of line 206; its frame (i, vectors, the
\* records and the requests of its loop) is gone
GetMeanVectorReturns ==
  /\ pc = "lookup"
  /\ i > Len(song_list)
  /\ song_center' = MeanVector(vectors)
  /\ pc' = "rank"
  /\ i' = 0
  /\ vectors' = <<>>
  /\ seed_data' = <<>>
  /\ calls' = <<>>
  /\ UNCHANGED <<engine, song_list, n_songs, track, recs, outcome>>

\* recommend_songs as it would be if line 219 wrote the default column to
\* the catalog frame and not to a copy
Recommend_InPlace ==
  /\ pc = "rank"
  /\ LET distances == CenterDistances(scaler, data, song_center)
     IN  \E tie \in {"forward", "reverse"} :
           LET order == argsort(distances, tie)
           IN  \E n \in 1..MaxN :
                 LET index == RankedIndices(order, data, song_list, n)
                 IN  /\ n_songs' = n
                     /\ recs' = IF song_center.kind = "None" THEN None
                                ELSE [kind    |-> "DataFrame",
                                      index   |-> index,
                                      artists |-> ArtistsColumn(index, data)]
  /\ outcome' = IF recs'.kind = "None" \/ recs'.index = <<>>
                  THEN "no-matches" ELSE "ok"
  /\ pc' = "done"
  /\ data' = IF song_center.kind = "None" THEN data
             ELSE [k \in 1..Len(data) |->
                     [f \in DOMAIN data[k] \cup {"artists"} |->
                        IF f = "artists" THEN "Unknown" ELSE data[k][f]]]
  /\ UNCHANGED <<scaler, refitted, secrets, sp, song_list, i, vectors,
                 seed_data, track, calls, song_center>>

\* recommend_songs from line 207 to its return and the handler's lines
\* 255-258.  The result count n of the call and the order tie in which this
\* run of the sort leaves rows at equal distance are first read at line 213
\* and are drawn here.
Recommend ==
  /\ pc = "rank"
  /\ LET distances == CenterDistances(scaler, data, song_center)
     IN  \E tie \in {"forward", "reverse"} :
           LET order == argsort(distances, tie)
           IN  \E n \in 1..MaxN :
                 LET index == RankedIndices(order, data, song_list, n)
                 IN  /\ n_songs' = n
                     /\ recs' = IF song_center.kind = "None" THEN None
                                ELSE [kind    |-> "DataFrame",
                                      index   |-> index,
                                      artists |-> ArtistsColumn(index, data)]
  /\ outcome' = IF recs'.kind = "None" \/ recs'.index = <<>>
                  THEN "no-matches" ELSE "ok"
  /\ pc' = "done"
  /\ UNCHANGED <<engine, song_list, i, vectors, seed_data, track, calls,
                 song_center>>

Next ==
  \/ \E form \in Forms : Submit(form)
  \/ PageLoad
  \/ Lookup
  \/ SearchNoMatch
  \/ \E y \in ExtYears : SearchMatch(y)
  \/ SearchRaises
  \/ FeaturesNone
  \/ \E v \in ExtVals : FeaturesFound(v)
  \/ FeaturesRaises
  \/ GetMeanVectorReturns
  \/ Recommend

Spec == Init /\ [][Next]_vars

\* ------------------------------------------------------------- properties
\* a recommendation call has returned a ranked result
Ranked == pc = "done" /\ recs.kind = "DataFrame"

Result == recs.index

\* the catalog rows whose title is not a seed title
Remaining == {k \in 1..Len(data) : data[k].name \notin SeedNames(song_list)}

\* the distance of every catalog row to the standardized taste profile
Distances == CenterDistances(scaler, data, song_center)

Min(a, b) == IF a < b THEN a ELSE b

\* C1: a ranked result holds exactly min(n, k) tracks, k being the number of
\* catalog rows whose title is not a seed title
C1_ExactCount ==
  Ranked => Len(Result) = Min(n_songs, Cardinality(Remaining))

\* C2: a ranked result holds at most n_songs tracks and no track whose title
\* is the title of a seed of the request
C2_BoundedNoSeedTitle ==
  Ranked =>
    /\ Len(Result) <= n_songs
    /\ \A r \in 1..Len(Result) :
         \A s \in 1..Len(song_list) : data[Result[r]].name # song_list[s].name

\* C2 witness: a non-empty result from which the exclusion removed a row
C2_Witness ==
  /\ Ranked
  /\ Len(Result) >= 1
  /\ Len(Result) < n_songs
  /\ Cardinality(Remaining) < Len(data)

\* C3: along a ranked result the distance to the profile never decreases, and
\* its first track is at the least distance among all the rows whose title is
\* not a seed title (a NaN distance counts as the largest)
C3_MostSimilarFirst ==
  Ranked =>
    LET dist == Distances
    IN  /\ \A a, b \in 1..Len(Result) :
             a < b => ~DistLess(dist[Result[b]], dist[Result[a]])
        /\ Result # <<>> =>
             \A k \in Remaining : ~DistLess(dist[k], dist[Result[1]])

\* C3 witness: a seed-titled row was cut from the first n, and the first
\* track of the result is strictly nearer than a remaining row that is not in
\* the result
C3_Witness ==
  /\ Ranked
  /\ Len(Result) >= 1
  /\ Len(Result) < n_songs
  /\ \E k \in Remaining :
       /\ \A r \in 1..Len(Result) : Result[r] # k
       /\ DistLess(Distances[Result[1]], Distances[k])

\* C4: rows at equal distance from the profile (equal numbers, NaN left
\* aside) appear in a ranked result in their catalog order, the tie-break
\* that makes the result a function of catalog, scaler and seed list alone
C4_StableTieBreak ==
  Ranked =>
    LET dist == Distances
    IN  \A a, b \in 1..Len(Result) :
          ( /\ a < b
            /\ ~IsNaN(dist[Result[a]])
            /\ ~IsNaN(dist[Result[b]])
            /\ DistEqual(dist[Result[a]], dist[Result[b]]) )
            => Result[a] < Result[b]

\* get_mean_vector's loop has processed every seed
LoopOver == pc = "lookup" /\ i > Len(song_list)

\* the step in which get_mean_vector returns
MeanReturns == pc = "lookup" /\ pc' = "rank"

\* seed k matches a catalog row on title and year
InCatalog(k) ==
  \E r \in 1..Len(data) :
    data[r].name = song_list[k].name /\ data[r].year = song_list[k].year

\* the external service returned a match and its audio features for seed k
FoundExternally(k) ==
  \E q \in 1..Len(calls) : calls[q].seed = k /\ calls[q].reply = "features"

Resolvable == {k \in 1..Len(song_list) : InCatalog(k) \/ FoundExternally(k)}

\* C5: a seed that matches a catalog row is answered with that catalog
\* record, the same at every occurrence of the seed, and no request is sent
\* to the external service for it: requests are sent for catalog misses only
C5_CatalogFirst ==
  \A k \in 1..Len(song_list) :
    InCatalog(k) =>
      /\ \A q \in 1..Len(calls) : calls[q].seed # k
      /\ k <= Len(seed_data) =>
           /\ seed_data[k].kind = "Series"
           /\ seed_data[k].source = "catalog"
           /\ data[seed_data[k].row].name = song_list[k].name
           /\ data[seed_data[k].row].year = song_list[k].year
           /\ seed_data[k].valence = data[seed_data[k].row].valence
           /\ \A h \in 1..Len(seed_data) :
                song_list[h] = song_list[k] => seed_data[h] = seed_data[k]

\* C5 witness: the same catalog seed resolved twice in one request that
\* sent nothing to the external service
C5_Witness ==
  /\ LoopOver
  /\ Len(seed_data) >= 2
  /\ InCatalog(1)
  /\ song_list[1] = song_list[2]
  /\ calls = <<>>

\* C6: an exception of the external service while one seed is resolved does
\* not abort the request when another seed of the list resolves
C6_FailureDoesNotAbort ==
  outcome = "error" =>
    \A k \in 1..Len(song_list) :
      k # i => /\ ~InCatalog(k)
               /\ k <= Len(seed_data) => seed_data[k].kind = "None"

\* C7: for a seed the catalog misses, one search is sent at most, audio
\* features are requested only right after a search that returned a match,
\* and a search without match or a match without features makes
\* get_song_data return None: only an exception of the service ends a
\* request in an error
C7_ExternalNotFound ==
  /\ \A q \in 1..Len(calls) :
       /\ calls[q].op = "features" =>
            /\ q > 1
            /\ calls[q - 1].op = "search"
            /\ calls[q - 1].seed = calls[q].seed
            /\ calls[q - 1].reply = "match"
       /\ \A h \in 1..Len(calls) :
            (calls[h].op = calls[q].op /\ calls[h].seed = calls[q].seed) => h = q
       /\ calls[q].reply \in {"no-match", "none"} =>
            /\ calls[q].seed <= Len(seed_data)
            /\ seed_data[calls[q].seed] = None
       /\ calls[q].reply = "no-match" =>
            \A h \in 1..Len(calls) :
              ~(calls[h].op = "features" /\ calls[h].seed = calls[q].seed)
  /\ outcome = "error" => (calls # <<>> /\ calls[Len(calls)].reply = "raised")

\* C7 witness: get_mean_vector's loop ended after a search without match
\* for one seed and a match without audio features for another
C7_Witness ==
  /\ LoopOver
  /\ \E q \in 1..Len(calls) : calls[q].reply = "no-match"
  /\ \E q \in 1..Len(calls) : calls[q].reply = "none"

Found == SelectSeq(seed_data, LAMBDA r : r.kind = "Series")

\* C9: get_mean_vector returns None when no seed resolved; otherwise, for
\* every column, count times the returned mean is the sum of the column over
\* all resolved seeds, each occurrence of a seed counted once
C9_ArithmeticMean ==
  [][ MeanReturns =>
        IF Found = <<>>
          THEN song_center' = None
          ELSE /\ song_center'.kind = "array"
               /\ song_center'.cnt = Len(Found)
               /\ \A j \in NumCols :
                    song_center'.sum[j] =
                      SumSeq([k \in 1..Len(Found) |-> Found[k][number_cols[j]]])
    ]_vars

\* C9 witness: the profile returned for a catalog seed that is listed twice
C9_Witness ==
  /\ pc = "rank"
  /\ Len(song_list) = 2
  /\ song_list[1] = song_list[2]
  /\ InCatalog(1)
  /\ song_center.cnt = 2

\* C10: a form without any title ends in the no-input outcome: no seed is
\* looked up, no request goes to the external service, nothing is ranked;
\* the no-matches outcome is reached with a non-empty seed list only
C10_EmptySeedList ==
  /\ (pc # "idle" /\ song_list = <<>>) =>
       /\ pc = "done"
       /\ outcome = "no-input"
       /\ seed_data = <<>>
       /\ calls = <<>>
       /\ song_center = None
       /\ recs = None
  /\ outcome = "no-input" => song_list = <<>>
  /\ outcome = "no-matches" => song_list # <<>>

\* C10 witness: the no-input outcome is shown
C10_Witness == pc = "done" /\ outcome = "no-input"

\* C11: when no seed of a non-empty list is in the catalog and the external
\* service found none of them, get_mean_vector returns None without an
\* exception, and from None recommend_songs returns None, nothing being
\* ranked, and the page shows the no-matches outcome
C11_NoUsableSeeds ==
  [][ /\ (MeanReturns /\ Resolvable = {}) =>
           /\ song_list # <<>>
           /\ \A k \in 1..Len(song_list) : seed_data[k] = None
           /\ outcome = "none"
           /\ song_center' = None
      /\ (pc = "rank" /\ pc' = "done" /\ song_center = None) =>
           /\ recs' = None
           /\ outcome' = "no-matches" ]_vars

\* C11 witness: the no-matches outcome of a request with two seeds, neither
\* of them resolved
C11_Witness ==
  /\ pc = "done"
  /\ Len(song_list) = 2
  /\ song_center = None
  /\ recs = None
  /\ outcome = "no-matches"

\* C12: the scaler is fitted once, at startup, and stays as fitted: in every
\* state its parameters are those fitted from the catalog, and no run that
\* serves a request has fitted a scaler again
C12_FittedOnce ==
  /\ scaler = fit(data)
  /\ refitted = FALSE

\* C13: no step changes the catalog: lookups, external replies, the copy the
\* result is cut from and the default 'artists' column of the result leave
\* its rows, their order and their columns as they were loaded
C13_CatalogImmutable == [][data' = data]_vars

\* C13 witness: a request returned rows with the default 'artists' column,
\* which the catalog does not have
C13_Witness ==
  /\ Ranked
  /\ Result # <<>>
  /\ \A r \in 1..Len(Result) : recs.artists[r] = "Unknown"
  /\ \A k \in 1..Len(data) : DOMAIN data[k] = {"name", "year", "valence"}

\* C14: when st.secrets does not hold the credentials, the absence is
\* reported at startup or at the first use of the external service at the
\* latest: no request is sent to the service, with the literals in place of
\* the credentials or otherwise
C14_MissingCredentialsReported ==
  ~secrets =>
    /\ pc \notin {"search", "features"}
    /\ calls = <<>>

\* C15: for a column that is constant over the catalog (zero variance),
\* transform gives 0 in that column for every catalog row and for the taste
\* profile, whatever the profile's value in that column
C15_ZeroVarianceGivesZero ==
  song_center.kind = "array" =>
    \A j \in NumCols :
      scaler.var_num[j] = 0 =>
        /\ \A k \in 1..Len(data) : ScaledRow(scaler, data, k).c[j] = 0
        /\ transform(scaler, song_center.sum, song_center.cnt).c[j] = 0

\* the catalog rows equal to seed k in title and in year
Matches(k) ==
  {r \in 1..Len(data) :
     data[r].name = song_list[k].name /\ data[r].year = song_list[k].year}

\* C16: for every seed get_song_data has answered: when catalog rows equal
\* the seed in title and year, the answer is the first of them in catalog
\* order, with that row's values; when none does, the answer is no catalog
\* row at all, whatever rows share the title alone or the year alone
C16_ExactFirstMatch ==
  \A k \in 1..Len(seed_data) :
    IF Matches(k) = {}
      THEN seed_data[k].kind = "None" \/ seed_data[k].source = "external"
      ELSE /\ seed_data[k].kind = "Series"
           /\ seed_data[k].source = "catalog"
           /\ seed_data[k].row \in Matches(k)
           /\ \A r \in Matches(k) : seed_data[k].row <= r
           /\ \A f \in {"name", "year", "valence"} :
                seed_data[k][f] = data[seed_data[k].row][f]

\* C16 witness: a seed answered with the second catalog row, where the first
\* row has the seed's title with another year and the third row is equal to
\* the second
C16_Witness ==
  /\ Len(seed_data) >= 1
  /\ seed_data[1].kind = "Series"
  /\ seed_data[1].source = "catalog"
  /\ seed_data[1].row = 2
  /\ data[1].name = song_list[1].name
  /\ data[1].year # song_list[1].year
  /\ Matches(1) = {2, 3}

\* C17: a catalog row whose title is the title of any seed of the request is
\* in no ranked result, whatever its year and whether or not that seed was
\* resolved; and the exclusion removes nothing else: a row with no seed's
\* title that is among the first n_songs in every order of the sort is in
\* the result
C17_ExcludedByTitleAlone ==
  Ranked =>
    LET dist == Distances
    IN  \A k \in 1..Len(data) :
          IF \E s \in 1..Len(song_list) : data[k].name = song_list[s].name
            THEN \A r \in 1..Len(Result) : Result[r] # k
            ELSE Cardinality({h \in 1..Len(data) \ {k} :
                                ~DistLess(dist[k], dist[h])}) < n_songs
                   => \E r \in 1..Len(Result) : Result[r] = k

\* C17 witness: the first seed is not resolved (the profile is that of the
\* second seed, a catalog row with another title), rows with the first
\* seed's title and another year are among the first n_songs, and none of
\* them is in the result
C17_Witness ==
  /\ Ranked
  /\ Len(song_list) = 2
  /\ song_list[1].name # song_list[2].name
  /\ ~InCatalog(1)
  /\ InCatalog(2)
  /\ song_center.cnt = 1
  /\ \E k \in 1..Len(data) :
       data[k].name = song_list[1].name /\ data[k].year # song_list[1].year
  /\ Cardinality({h \in 1..Len(data) : data[h].name # song_list[1].name})
       < n_songs
  /\ \A r \in 1..Len(Result) : data[Result[r]].name # song_list[1].name

====
